---- MODULE Spec2Model ----
(***************************************************************************)
(* The DAG driver of consensus/src/dag/dag_driver.rs: one validator's      *)
(* round state machine.  It ingests certified nodes (RpcHandler::process   *)
(* -> add_node), advances its round (enter_new_round), journals its own    *)
(* proposal and hands it to an abortable two-phase reliable broadcast      *)
(* (broadcast_node), and recovers the pending proposal at start (new).     *)
(***************************************************************************)
EXTENDS Bags, FiniteSets, Integers, Sequences, TLC

\* ------------------------------------------------------------------ bounds
\* Highest round of the nodes the peers offer.
MaxRound == 3
\* Number of own nodes the journal stores over a run.
MaxProposals == 2
\* Number of insertions the other holders of the shared DAG perform.
MaxExternalAdds == 3
\* dag_state_sync::DAG_WINDOW: the rounds below the committed anchor that the
\* payload filter still covers.
DAG_WINDOW == 1

\* ------------------------------------------------------- validators, nodes
Authors == {"a1", "a2", "a3", "a4"}
\* DagDriver.author
Self == "a1"
Peers == Authors \ {Self}
\* The peer that signs two different nodes for one round.
Equivocator == "a4"
\* DagDriver.epoch_state.epoch
Epoch == 1

\* NodeMetadata { epoch, round, author, digest }
Meta(e, r, a, d) == [epoch |-> e, round |-> r, author |-> a, digest |-> d]

\* Node / CertifiedNode: the metadata and the strong links (parents' metadata).
MkNode(m, links) == [meta |-> m, links |-> links]

\* The strong links of a peer's round-r node: the three peers' first nodes of
\* round r-1 (a quorum); round-1 nodes have none.
PeerLinks(r) == IF r <= 1 THEN {} ELSE {Meta(Epoch, r - 1, a, 1) : a \in Peers}

\* The certified nodes the peers produce, one per peer and round.
HonestNodes ==
  {MkNode(Meta(Epoch, r, a, 1), PeerLinks(r)) : r \in 1..MaxRound, a \in Peers}

\* A second, conflicting round-1 node of the equivocator.
ConflictingNode == MkNode(Meta(Epoch, 1, Equivocator, 2), {})

\* A node of another epoch.
OtherEpochNode == MkNode(Meta(Epoch + 1, MaxRound, "a2", 1), PeerLinks(MaxRound))

PeerNodes == HonestNodes \cup {ConflictingNode, OtherEpochNode}

\* A DAG recovered with a complete first round.
Round1Dag == {MkNode(Meta(Epoch, 1, a, 1), {}) : a \in Peers}

\* ---------------------------------------------------------------- DAG store
\* ValidatorVerifier quorum threshold: more than two thirds of the validators.
QuorumSize == (2 * Cardinality(Authors)) \div 3 + 1

\* Dag::exists
exists(d, m) == \E n \in d : n.meta = m

\* Dag::all_exists with "any" for "all".
all_exists_any(d, ms) == ms = {} \/ \E m \in ms : exists(d, m)

\* Dag::all_exists
all_exists(d, ms) == \A m \in ms : exists(d, m)

\* Dag::highest_round
highest_round(d) ==
  IF d = {} THEN 0
  ELSE CHOOSE r \in {n.meta.round : n \in d} : \A n \in d : n.meta.round <= r

RoundNodes(d, r) == {n \in d : n.meta.round = r}

\* Dag::get_strong_links_for_round is Some(..) iff the authors of round r
\* satisfy the quorum threshold.
HasStrongLinks(d, r) ==
  Cardinality({n.meta.author : n \in RoundNodes(d, r)}) >= QuorumSize

\* The value inside that Some(..): the metadata of the nodes of round r.
StrongLinks(d, r) == {n.meta : n \in RoundNodes(d, r)}

\* Dag::add_node: the error it returns, or "Ok".
DagAddResult(d, n) ==
  IF \E x \in d : x.meta.round = n.meta.round /\ x.meta.author = n.meta.author
    THEN "DuplicateNode"
  ELSE IF n.meta.epoch # Epoch THEN "InvalidEpoch"
  ELSE IF ~all_exists(d, n.links) THEN "UnknownParents"
  ELSE "Ok"

\* highest_round.saturating_sub(1)
SatSub1(r) == IF r = 0 THEN 0 ELSE r - 1

\* Dag::reachable(roots, Some(lower_round_bound), |_| true): breadth-first
\* backward over the strong links from the nodes the roots name, never going
\* below the bound; each node once.
reachable(d, roots, lower_round_bound) ==
  LET RECURSIVE visit(_, _)
      visit(front, seen) ==
        LET here == {n \in d : n.meta \in front
                                 /\ n.meta.round >= lower_round_bound} \ seen
        IN IF here = {} THEN seen
           ELSE visit(UNION {n.links : n \in here}, seen \cup here)
  IN visit(roots, {})

\* The highest round with strong links, as new and add_node compute it.
HighestStrongLinksRound(d) ==
  IF HasStrongLinks(d, highest_round(d)) THEN highest_round(d)
  ELSE SatSub1(highest_round(d))

\* ------------------------------------------------------------------- state
VARIABLES
  status,          \* "down" (no driver: before new, after a crash or panic) or "running"
  dag,             \* the shared Dag: a set of certified nodes
  current_round,   \* DagDriver.current_round
  journal,         \* DAGStorage pending-node slot: {} or {node}
  rb_abort_handle, \* DagDriver.rb_abort_handle: {} or {metadata of the task's node}
  chains,          \* the spawned broadcast tasks of this process
  saved,           \* every node save_pending_node has stored
  sent,            \* metadata the broadcast's first phase has sent to the peers
  order_rule,      \* bag of the metadata given to order_rule.process_new_node
  ext_adds,        \* insertions done by the other holders of the DAG
  committed,       \* ledger_info_provider.get_highest_committed_anchor_round()
  last             \* the last call and what came out of it

vars == <<status, dag, current_round, journal, rb_abort_handle, chains, saved,
          sent, order_rule, ext_adds, committed, last>>

\* op: the operation; res: what it returned ("Ack", an error) or the panic that
\* ended it; known: process found the node in the DAG and returned at once;
\* fetch: the request it handed to the fetch requester ({} if none); enter: the
\* round enter_new_round was called with (0: not called); pulled: whether
\* pull_payload was called; filter: the payload filter it was called with;
\* trace: the lock and await events of the call, in program order.
Call(op, res, known, fetch, enter, pulled, filter, trace) ==
  [op |-> op, res |-> res, known |-> known, fetch |-> fetch, enter |-> enter,
   pulled |-> pulled, filter |-> filter, trace |-> trace]

\* PayloadFilter::Empty, PayloadFilter::from(payloads), and no filter built.
\* A node's payload is identified by the node's metadata.
PayloadFilterEmpty == [kind |-> "Empty", payloads |-> {}]
PayloadFilterFrom(payloads) == [kind |-> "Excluding", payloads |-> payloads]
NoFilter == [kind |-> "None", payloads |-> {}]

\* The events of a call: the DAG read lock taken and dropped, the DAG write
\* lock taken and dropped, and an .await.
ReadLock == "r+"
ReadUnlock == "r-"
WriteLock == "w+"
WriteUnlock == "w-"
Await == "await"

\* The outcomes of the fallible collaborator calls of enter_new_round:
\* pull_payload fails, save_pending_node fails, or both succeed.
Outcomes == {"ok", "pull_err", "save_err"}

\* The driver's fields as one value, with the panic (if any) of the call in
\* progress, the round it entered, whether it pulled a payload, and the lock
\* and await events of new and enter_new_round.
Driver ==
  [current_round |-> current_round, journal |-> journal, saved |-> saved,
   chains |-> chains, rb_abort_handle |-> rb_abort_handle,
   ledger_info_provider |-> committed,
   panic |-> "none", enter |-> 0, pulled |-> FALSE, filter |-> NoFilter,
   trace |-> << >>]

\* A panic halts the replica: the process and its spawned tasks are gone.
Halted(drv) == drv.panic # "none"

\* ------------------------------------------------------------ the driver
\* The digest of a node built now: the timestamp and the payload make it differ
\* from the digest of every node stored before.
FreshDigest(stored) == Cardinality(stored) + 1

\* broadcast_node that replaces the handle without aborting the previous task.
broadcast_node_no_abort(drv, node) ==
  [drv EXCEPT !.chains = @ \cup {[node |-> node, phase |-> "spawned"]},
              !.rb_abort_handle = {node.meta}]

\* DagDriver::broadcast_node: spawn the abortable two-phase task for the node,
\* replace rb_abort_handle and abort the task the previous handle names (to
\* abort a finished task changes nothing).
broadcast_node(drv, node) ==
  LET task == [node |-> node, phase |-> "spawned"]
      abort(c) == IF c.node.meta \in drv.rb_abort_handle /\ c.phase # "done"
                    THEN [c EXCEPT !.phase = "aborted"] ELSE c
  IN [drv EXCEPT !.chains = {abort(c) : c \in drv.chains} \cup {task},
                 !.rb_abort_handle = {node.meta}]

\* a.saturating_sub(b)
SatSub(a, b) == IF a < b THEN 0 ELSE a - b

\* The payload filter that forgets the window below the committed anchor.
payload_filter_no_window(d, strong_links, highest_commit_round) ==
  IF strong_links = {} THEN PayloadFilterEmpty
  ELSE PayloadFilterFrom({n.meta : n \in reachable(d, strong_links,
                                                    highest_commit_round)})

\* enter_new_round, the payload filter: empty without strong links, else the
\* payloads of the nodes reachable from the strong links down to the round
\* highest_commit_round.saturating_sub(DAG_WINDOW).
payload_filter(d, strong_links, highest_commit_round) ==
  IF strong_links = {} THEN PayloadFilterEmpty
  ELSE PayloadFilterFrom({n.meta : n \in reachable(d, strong_links,
                                          SatSub(highest_commit_round, DAG_WINDOW))})

\* enter_new_round that ignores the result of save_pending_node.
enter_new_round_unsaved(d, drv, new_round, out) ==
  LET called == [drv EXCEPT !.enter = new_round,
                            !.trace = @ \o <<ReadLock, ReadUnlock>>]
      new_node == MkNode(Meta(Epoch, new_round, Self, FreshDigest(drv.saved)),
                         StrongLinks(d, new_round - 1))
      pulled == [called EXCEPT !.pulled = TRUE,
                               !.filter = payload_filter(d,
                                            StrongLinks(d, new_round - 1),
                                            drv.ledger_info_provider),
                               !.trace = @ \o <<ReadLock, ReadUnlock, Await>>]
      built == [pulled EXCEPT !.current_round = new_round]
  IN IF ~HasStrongLinks(d, new_round - 1)
       THEN [called EXCEPT !.panic = "strong_links"]
     ELSE IF out = "pull_err"
       THEN [pulled EXCEPT !.panic = "pull_payload"]
     ELSE IF out = "save_err"
       THEN broadcast_node(built, new_node)
     ELSE broadcast_node([built EXCEPT !.journal = {new_node},
                                       !.saved = @ \cup {new_node}],
                         new_node)

\* DagDriver::enter_new_round on DAG d, with the outcome out of its fallible
\* collaborator calls.
enter_new_round(d, drv, new_round, out) ==
  LET called == [drv EXCEPT !.enter = new_round,
                            !.trace = @ \o <<ReadLock, ReadUnlock>>]
      new_node == MkNode(Meta(Epoch, new_round, Self, FreshDigest(drv.saved)),
                         StrongLinks(d, new_round - 1))
      pulled == [called EXCEPT !.pulled = TRUE,
                               !.filter = payload_filter(d,
                                            StrongLinks(d, new_round - 1),
                                            drv.ledger_info_provider),
                               !.trace = @ \o <<ReadLock, ReadUnlock, Await>>]
      built == [pulled EXCEPT !.current_round = new_round]
  IN IF ~HasStrongLinks(d, new_round - 1)
       THEN [called EXCEPT !.panic = "strong_links"]
     ELSE IF out = "pull_err"
       THEN [pulled EXCEPT !.panic = "pull_payload"]
     ELSE IF out = "save_err"
       THEN [built EXCEPT !.panic = "save_pending_node"]
     ELSE broadcast_node([built EXCEPT !.journal = {new_node},
                                       !.saved = @ \cup {new_node}],
                         new_node)

\* add_node that enters the next round after every insertion.
add_node_always_enter(d, drv, node, out) ==
  LET d1 == d \cup {node}
      q == HighestStrongLinksRound(d1)
  IN IF ~all_exists(d, node.links)
       THEN [dag |-> d, drv |-> drv, res |-> "MissingParents",
             fetch |-> {node.meta}, added |-> FALSE,
             trace |-> <<WriteLock, WriteUnlock>>]
     ELSE IF DagAddResult(d, node) # "Ok"
       THEN [dag |-> d, drv |-> drv, res |-> DagAddResult(d, node),
             fetch |-> {}, added |-> FALSE,
             trace |-> <<WriteLock, WriteUnlock>>]
     ELSE [dag |-> d1, drv |-> enter_new_round(d1, drv, q + 1, out),
           res |-> "Ok", fetch |-> {}, added |-> TRUE,
           trace |-> <<WriteLock, WriteUnlock, Await>>
                       \o enter_new_round(d1, drv, q + 1, out).trace]

\* add_node that fails on missing parents without asking for a fetch.
add_node_no_fetch(d, drv, node, out) ==
  LET d1 == d \cup {node}
      q == HighestStrongLinksRound(d1)
  IN IF ~all_exists(d, node.links)
       THEN [dag |-> d, drv |-> drv, res |-> "MissingParents",
             fetch |-> {}, added |-> FALSE,
             trace |-> <<WriteLock, WriteUnlock>>]
     ELSE IF DagAddResult(d, node) # "Ok"
       THEN [dag |-> d, drv |-> drv, res |-> DagAddResult(d, node),
             fetch |-> {}, added |-> FALSE,
             trace |-> <<WriteLock, WriteUnlock>>]
     ELSE [dag |-> d1,
           drv |-> IF drv.current_round <= q
                     THEN enter_new_round(d1, drv, q + 1, out) ELSE drv,
           res |-> "Ok", fetch |-> {}, added |-> TRUE,
           trace |-> IF drv.current_round <= q
                       THEN <<WriteLock, WriteUnlock, Await>>
                              \o enter_new_round(d1, drv, q + 1, out).trace
                       ELSE <<WriteLock, WriteUnlock>>]

\* add_node that enters the round after current_round, whatever round has the
\* quorum.
add_node_next_round(d, drv, node, out) ==
  LET d1 == d \cup {node}
      q == HighestStrongLinksRound(d1)
  IN IF ~all_exists(d, node.links)
       THEN [dag |-> d, drv |-> drv, res |-> "MissingParents",
             fetch |-> {node.meta}, added |-> FALSE,
             trace |-> <<WriteLock, WriteUnlock>>]
     ELSE IF DagAddResult(d, node) # "Ok"
       THEN [dag |-> d, drv |-> drv, res |-> DagAddResult(d, node),
             fetch |-> {}, added |-> FALSE,
             trace |-> <<WriteLock, WriteUnlock>>]
     ELSE [dag |-> d1,
           drv |-> IF drv.current_round <= q
                     THEN enter_new_round(d1, drv, drv.current_round + 1, out)
                     ELSE drv,
           res |-> "Ok", fetch |-> {}, added |-> TRUE,
           trace |-> IF drv.current_round <= q
                       THEN <<WriteLock, WriteUnlock, Await>>
                              \o enter_new_round(d1, drv, drv.current_round + 1,
                                                 out).trace
                       ELSE <<WriteLock, WriteUnlock>>]

\* add_node that keeps the write lock until it returns.
add_node_lock_held(d, drv, node, out) ==
  LET d1 == d \cup {node}
      q == HighestStrongLinksRound(d1)
  IN IF ~all_exists(d, node.links)
       THEN [dag |-> d, drv |-> drv, res |-> "MissingParents",
             fetch |-> {node.meta}, added |-> FALSE,
             trace |-> <<WriteLock, WriteUnlock>>]
     ELSE IF DagAddResult(d, node) # "Ok"
       THEN [dag |-> d, drv |-> drv, res |-> DagAddResult(d, node),
             fetch |-> {}, added |-> FALSE,
             trace |-> <<WriteLock, WriteUnlock>>]
     ELSE [dag |-> d1,
           drv |-> IF drv.current_round <= q
                     THEN enter_new_round(d1, drv, q + 1, out) ELSE drv,
           res |-> "Ok", fetch |-> {}, added |-> TRUE,
           trace |-> IF drv.current_round <= q
                       THEN <<WriteLock, Await>>
                              \o enter_new_round(d1, drv, q + 1, out).trace
                              \o <<WriteUnlock>>
                       ELSE <<WriteLock, WriteUnlock>>]

\* add_node that enters the next round only when current_round is below q.
add_node_strict_guard(d, drv, node, out) ==
  LET d1 == d \cup {node}
      q == HighestStrongLinksRound(d1)
  IN IF ~all_exists(d, node.links)
       THEN [dag |-> d, drv |-> drv, res |-> "MissingParents",
             fetch |-> {node.meta}, added |-> FALSE,
             trace |-> <<WriteLock, WriteUnlock>>]
     ELSE IF DagAddResult(d, node) # "Ok"
       THEN [dag |-> d, drv |-> drv, res |-> DagAddResult(d, node),
             fetch |-> {}, added |-> FALSE,
             trace |-> <<WriteLock, WriteUnlock>>]
     ELSE [dag |-> d1,
           drv |-> IF drv.current_round < q
                     THEN enter_new_round(d1, drv, q + 1, out) ELSE drv,
           res |-> "Ok", fetch |-> {}, added |-> TRUE,
           trace |-> IF drv.current_round < q
                       THEN <<WriteLock, WriteUnlock, Await>>
                              \o enter_new_round(d1, drv, q + 1, out).trace
                       ELSE <<WriteLock, WriteUnlock>>]

\* DagDriver::add_node on DAG d: the DAG and the driver after the call, the
\* result ("Ok" or the error), the fetch request issued and whether the node
\* was inserted.
add_node(d, drv, node, out) ==
  LET d1 == d \cup {node}
      q == HighestStrongLinksRound(d1)
  IN IF ~all_exists(d, node.links)
       THEN [dag |-> d, drv |-> drv, res |-> "MissingParents",
             fetch |-> {node.meta}, added |-> FALSE,
             trace |-> <<WriteLock, WriteUnlock>>]
     ELSE IF DagAddResult(d, node) # "Ok"
       THEN [dag |-> d, drv |-> drv, res |-> DagAddResult(d, node),
             fetch |-> {}, added |-> FALSE,
             trace |-> <<WriteLock, WriteUnlock>>]
     ELSE [dag |-> d1,
           drv |-> IF drv.current_round <= q
                     THEN enter_new_round(d1, drv, q + 1, out) ELSE drv,
           res |-> "Ok", fetch |-> {}, added |-> TRUE,
           trace |-> IF drv.current_round <= q
                       THEN <<WriteLock, WriteUnlock, Await>>
                              \o enter_new_round(d1, drv, q + 1, out).trace
                       ELSE <<WriteLock, WriteUnlock>>]

\* process without the early return for a node the DAG holds.
process_no_exists_check(d, drv, node, out) ==
  LET r == add_node(d, drv, node, out)
      ok == r.res = "Ok" /\ ~Halted(r.drv)
  IN [dag |-> r.dag, drv |-> r.drv, known |-> FALSE,
      res |-> IF Halted(r.drv) THEN r.drv.panic
              ELSE IF ok THEN "Ack" ELSE r.res,
      ack |-> IF ok THEN {node.meta.epoch} ELSE {},
      fetch |-> r.fetch, added |-> r.added,
      notify |-> IF ok THEN {node.meta} ELSE {},
      trace |-> <<Await>> \o r.trace]

\* RpcHandler::process on DAG d: what add_node leaves, the response (res "Ack"
\* with the epoch of the CertifiedAck, or the error, or the panic) and the
\* metadata pushed to the order rule.
process(d, drv, node, out) ==
  LET r == add_node(d, drv, node, out)
      ok == r.res = "Ok" /\ ~Halted(r.drv)
  IN IF exists(d, node.meta)
       THEN [dag |-> d, drv |-> drv, res |-> "Ack", ack |-> {node.meta.epoch},
             known |-> TRUE, fetch |-> {}, added |-> FALSE, notify |-> {},
             trace |-> <<ReadLock, ReadUnlock>>]
     ELSE [dag |-> r.dag, drv |-> r.drv, known |-> FALSE,
           res |-> IF Halted(r.drv) THEN r.drv.panic
                   ELSE IF ok THEN "Ack" ELSE r.res,
           ack |-> IF ok THEN {node.meta.epoch} ELSE {},
           fetch |-> r.fetch, added |-> r.added,
           notify |-> IF ok THEN {node.meta} ELSE {},
           trace |-> <<ReadLock, ReadUnlock, Await>> \o r.trace]

\* new that never resumes the pending node.
DagDriverNew_fresh(d, drv, pending, out) ==
  LET q == HighestStrongLinksRound(d)
      init == [drv EXCEPT !.current_round = q, !.rb_abort_handle = {},
                          !.chains = {},
                          !.trace = <<ReadLock, ReadUnlock, ReadLock, ReadUnlock>>]
  IN IF out = "read_err" THEN [drv EXCEPT !.panic = "get_pending_node"]
     ELSE enter_new_round(d, init, q + 1, out)

\* DagDriver::new on DAG d with the journal's pending node (a set of at most
\* one node): the driver it builds, or the panic that ends it.
DagDriverNew(d, drv, pending, out) ==
  LET q == HighestStrongLinksRound(d)
      init == [drv EXCEPT !.current_round = q, !.rb_abort_handle = {},
                          !.chains = {},
                          !.trace = <<ReadLock, ReadUnlock, ReadLock, ReadUnlock>>]
      resume == {p \in pending : p.meta.round = q + 1}
  IN IF out = "read_err" THEN [drv EXCEPT !.panic = "get_pending_node"]
     ELSE IF resume # {}
       THEN LET p == CHOOSE x \in resume : TRUE
            IN broadcast_node([init EXCEPT !.current_round = p.meta.round], p)
     ELSE enter_new_round(d, init, q + 1, out)

\* ----------------------------------------------------------------- actions
Init ==
  /\ status = "down"
  /\ dag \in {{}, Round1Dag}
  /\ current_round = 0
  /\ journal = {}
  /\ rb_abort_handle = {}
  /\ chains = {}
  /\ saved = {}
  /\ sent = {}
  /\ order_rule = EmptyBag
  /\ ext_adds = 0
  /\ committed = 0
  /\ last = Call("none", "none", FALSE, {}, 0, FALSE, NoFilter, << >>)

\* The driver's fields after a call of a running driver.
Apply(drv) ==
  /\ status' = IF Halted(drv) THEN "down" ELSE "running"
  /\ current_round' = drv.current_round
  /\ journal' = drv.journal
  /\ saved' = drv.saved
  /\ chains' = IF Halted(drv) THEN {} ELSE drv.chains
  /\ rb_abort_handle' = IF Halted(drv) THEN {} ELSE drv.rb_abort_handle

\* Start of the replica: DagDriver::new.  A panic inside new unwinds the
\* driver under construction, so no driver results from it.
Startup(out) ==
  /\ status = "down"
  /\ LET drv == DagDriverNew(dag, Driver, journal, out)
     IN /\ Cardinality(drv.saved) <= MaxProposals
        /\ IF Halted(drv)
             THEN UNCHANGED <<status, current_round, journal, saved, chains,
                              rb_abort_handle>>
             ELSE Apply(drv)
        /\ last' = Call("startup", IF Halted(drv) THEN drv.panic ELSE "ok",
                        FALSE, {}, drv.enter, drv.pulled, drv.filter, drv.trace)
  /\ UNCHANGED <<dag, sent, order_rule, ext_adds, committed>>

\* RpcHandler::process of a certified node.
Process(node, out) ==
  /\ status = "running"
  /\ LET r == process(dag, Driver, node, out)
     IN /\ Cardinality(r.drv.saved) <= MaxProposals
        /\ dag' = r.dag
        /\ Apply(r.drv)
        /\ order_rule' = order_rule (+) SetToBag(r.notify)
        /\ last' = Call("process", r.res, r.known, r.fetch, r.drv.enter,
                        r.drv.pulled, r.drv.filter, r.trace)
  /\ UNCHANGED <<sent, ext_adds, committed>>

\* The replica is killed.
Crash ==
  /\ status = "running"
  /\ status' = "down"
  /\ chains' = {}
  /\ rb_abort_handle' = {}
  /\ last' = Call("crash", "none", FALSE, {}, 0, FALSE, NoFilter, << >>)
  /\ UNCHANGED <<dag, current_round, journal, saved, sent, order_rule, ext_adds,
                 committed>>

\* A step of a broadcast task moves it to the next phase; an aborted or
\* finished task takes none.
Advance(c, from, to) ==
  /\ status = "running"
  /\ c \in chains
  /\ c.phase = from
  /\ chains' = (chains \ {c}) \cup {[c EXCEPT !.phase = to]}
  /\ UNCHANGED <<status, dag, current_round, journal, rb_abort_handle, saved,
                 order_rule, ext_adds, committed, last>>

\* First phase of a broadcast task: the node goes out to the peers.
ChainSend(c) ==
  /\ Advance(c, "spawned", "outer")
  /\ sent' = sent \cup {c.node.meta}

\* The first phase completes with a certificate; the second phase starts
\* sending the certified node.
ChainCertify(c) ==
  /\ Advance(c, "outer", "inner")
  /\ UNCHANGED sent

\* The second phase completes: the task finishes.
ChainFinish(c) ==
  /\ Advance(c, "inner", "done")
  /\ UNCHANGED sent

\* Another holder of the shared DAG (the fetcher) inserts a certified node.
DagExternalAdd(node) ==
  /\ status = "running"
  /\ ext_adds < MaxExternalAdds
  /\ DagAddResult(dag, node) = "Ok"
  /\ dag' = dag \cup {node}
  /\ ext_adds' = ext_adds + 1
  /\ UNCHANGED <<status, current_round, journal, rb_abort_handle, chains, saved,
                 sent, order_rule, committed, last>>

\* The ledger commits an anchor of a higher round.
Commit ==
  /\ committed < MaxRound
  /\ committed' = committed + 1
  /\ UNCHANGED <<status, dag, current_round, journal, rb_abort_handle, chains,
                 saved, sent, order_rule, ext_adds, last>>

\* The outcomes that can differ for a call: those of the collaborator calls
\* it reaches.
OutcomesOf(pulled) == IF pulled THEN Outcomes ELSE {"ok"}

StartupStep ==
  \E out \in OutcomesOf(DagDriverNew(dag, Driver, journal, "ok").pulled)
             \cup {"read_err"} : Startup(out)
ProcessStep ==
  \E node \in PeerNodes :
    \E out \in OutcomesOf(process(dag, Driver, node, "ok").drv.pulled) :
      Process(node, out)
ChainSendStep == \E c \in chains : ChainSend(c)
ChainCertifyStep == \E c \in chains : ChainCertify(c)
ChainFinishStep == \E c \in chains : ChainFinish(c)
DagExternalAddStep == \E node \in HonestNodes : DagExternalAdd(node)

\* The driver as the only writer of the DAG.
Next ==
  \/ StartupStep
  \/ ProcessStep
  \/ Crash
  \/ ChainSendStep
  \/ ChainCertifyStep
  \/ ChainFinishStep

Spec == Init /\ [][Next]_vars

\* A correct replica among correct validators: no crash, storage and payload
\* client do not fail.
ProcessOkStep == \E node \in PeerNodes : Process(node, "ok")

NextCorrect ==
  \/ Startup("ok")
  \/ ProcessOkStep
  \/ ChainSendStep
  \/ ChainCertifyStep
  \/ ChainFinishStep

\* Fair scheduling: the replica is started when it is down, and the peers'
\* nodes keep being delivered.
SpecFair ==
  /\ Init
  /\ [][NextCorrect]_vars
  /\ WF_vars(Startup("ok"))
  /\ WF_vars(ProcessOkStep)

\* A correct replica while the ledger commits.
NextCommit ==
  \/ Startup("ok")
  \/ ProcessOkStep
  \/ Commit

SpecCommit == Init /\ [][NextCommit]_vars

\* The driver beside another holder of the shared DAG (the fetcher), which
\* inserts nodes without telling the driver; storage and payload client do
\* not fail, and the broadcast tasks get as far as sending.
NextShared ==
  \/ Startup("ok")
  \/ \E node \in PeerNodes : Process(node, "ok")
  \/ ChainSendStep
  \/ DagExternalAddStep

SpecShared == Init /\ [][NextShared]_vars

\* ------------------------------------------------------------------ claims
\* The tasks that still run.
Live(c) == c.phase \in {"spawned", "outer", "inner"}

\* The panics of enter_new_round that come before it sets current_round.
EarlyPanics == {"strong_links", "pull_payload"}

\* C1: current_round never decreases, and every enter_new_round call that
\* add_node makes is for a round strictly greater than current_round, which it
\* sets unless it panics before that.
C1_RoundMonotonicity ==
  [][/\ current_round' >= current_round
     /\ (last'.op = "process" /\ last'.enter # 0 /\ ProcessStep) =>
          /\ last'.enter > current_round
          /\ last'.res \notin EarlyPanics => current_round' = last'.enter]_vars

C1_Witness ==
  /\ status = "running"
  /\ last.op = "process"
  /\ last.enter = 3
  /\ current_round = 3

\* C2: every node handed to the reliable broadcast, and every node sent, is a
\* node save_pending_node has stored: a node whose save failed is never
\* broadcast.
C2_JournalBeforeBroadcast ==
  /\ \A c \in chains : c.node \in saved
  /\ \A m \in sent : \E n \in saved : n.meta = m

C2_Witness ==
  /\ sent # {}
  /\ \E c \in chains : c.phase = "outer" /\ c.node.meta \in sent

\* C3: at most one broadcast task is live; every task but the one
\* rb_abort_handle names is aborted or finished; an aborted task stays aborted
\* and sends nothing more.
C3_AtMostOneInFlight ==
  /\ [](Cardinality({c \in chains : Live(c)}) <= 1)
  /\ [](\A c \in chains :
          c.node.meta \notin rb_abort_handle => c.phase \in {"aborted", "done"})
  /\ [][\A c \in chains :
          c.phase = "aborted" =>
            /\ chains' = {} \/ c \in chains'
            /\ c.node.meta \in sent' => c.node.meta \in sent]_vars

C3_Witness ==
  \E c1, c2 \in chains : c1.phase = "aborted" /\ Live(c2)

\* C4: whenever enter_new_round(r + 1) is called, round r of the DAG has a
\* quorum, and the call does not fail for want of strong links.
C4_QuorumAtRoundBoundary ==
  last.enter # 0 =>
    /\ HasStrongLinks(dag, last.enter - 1)
    /\ last.res # "strong_links"

\* C5: every node of the DAG has all its strong-link parents in the DAG.
C5_ParentClosure ==
  \A n \in dag : \A m \in n.links : \E parent \in dag : parent.meta = m

C5_Witness ==
  /\ last.op = "process"
  /\ last.res = "Ack"
  /\ ~last.known
  /\ \E n \in dag : n.meta.round = 3 /\ n.links # {}

\* C6: process of a node with a strong-link parent missing from the DAG fails
\* with MissingParents, asks the fetch requester for that node, and leaves
\* the DAG, current_round, the journal, the broadcast tasks and the order rule
\* as they were, without a call of enter_new_round.
C6_MissingParents ==
  [][\A n \in PeerNodes :
       (last'.op = "process" /\ ~all_exists(dag, n.links) /\ Process(n, "ok")) =>
         /\ last'.res = "MissingParents"
         /\ last'.fetch = {n.meta}
         /\ last'.enter = 0
         /\ UNCHANGED <<status, dag, current_round, journal, rb_abort_handle,
                        chains, saved, order_rule>>]_vars

C6_Witness ==
  /\ last.res = "MissingParents"
  /\ last.fetch # {}
  /\ \E c \in chains : Live(c)

\* C7: processing a node the DAG holds returns CertifiedAck with the node's
\* epoch and changes neither the DAG nor the driver nor the order rule; a call
\* that inserts a node and returns CertifiedAck tells the order rule of that
\* node once, and the order rule is told of no node twice.
C7_DuplicateIngest ==
  /\ [](\A m \in BagToSet(order_rule) : CopiesIn(m, order_rule) = 1)
  /\ [](status = "running" =>
          \A n \in PeerNodes \cap dag :
            LET again == process(dag, Driver, n, "ok")
            IN /\ again.res = "Ack"
               /\ again.ack = {n.meta.epoch}
               /\ again.dag = dag
               /\ again.drv = Driver
               /\ again.notify = {})
  /\ [][IF dag' = dag
          THEN order_rule' = order_rule
          ELSE \E n \in PeerNodes :
                 /\ ~exists(dag, n.meta)
                 /\ dag' = dag \cup {n}
                 /\ last'.op = "process"
                 /\ last'.res = "Ack" <=> status' = "running"
                 /\ order_rule' = IF last'.res = "Ack"
                                    THEN order_rule (+) SetToBag({n.meta})
                                    ELSE order_rule]_vars

C7_Witness ==
  /\ last.op = "process"
  /\ last.known
  /\ last.res = "Ack"
  /\ dag # Round1Dag
  /\ \A n \in dag \ Round1Dag : CopiesIn(n.meta, order_rule) = 1

\* C8: with storage and payload client working, new resumes the journal's
\* pending node P when P.round = q + 1: it sets current_round to P.round and
\* broadcasts P, pulls no payload and writes no journal entry; otherwise it
\* enters round q + 1: current_round becomes q + 1 and a node built anew for
\* that round is journalled and broadcast.
C8_StartupRecovery ==
  [][Startup("ok") =>
       LET q == HighestStrongLinksRound(dag)
       IN /\ status' = "running"
          /\ current_round' = q + 1
          /\ chains' = {[node |-> p, phase |-> "spawned"] : p \in journal'}
          /\ rb_abort_handle' = {p.meta : p \in journal'}
          /\ IF \E p \in journal : p.meta.round = q + 1
               THEN /\ last'.enter = 0
                    /\ ~last'.pulled
                    /\ UNCHANGED <<journal, saved>>
               ELSE /\ last'.enter = q + 1
                    /\ last'.pulled
                    /\ journal' \cap saved = {}
                    /\ \E p \in journal' :
                         /\ journal' = {p}
                         /\ p.meta.round = q + 1
                         /\ p.links = StrongLinks(dag, q)]_vars

C10_AbortOnRoundSkip ==
  [][\A n \in PeerNodes :
       (n \notin dag /\ dag' = dag \cup {n} /\ Process(n, "ok")) =>
         LET q == HighestStrongLinksRound(dag')
         IN IF q >= current_round
              THEN /\ last'.enter = q + 1
                   /\ current_round' = q + 1
                   /\ \A c \in chains :
                        Live(c) => /\ c \notin chains'
                                   /\ [c EXCEPT !.phase = "aborted"] \in chains'
                   /\ \E c \in chains' :
                        /\ c.phase = "spawned"
                        /\ c.node.meta.round = q + 1
                        /\ c.node.meta.author = Self
                        /\ c \notin chains
                        /\ rb_abort_handle' = {c.node.meta}
                        /\ {x \in chains' : Live(x)} = {c}
              ELSE /\ last'.enter = 0
                   /\ UNCHANGED <<current_round, chains, rb_abort_handle,
                                  journal, saved>>]_vars

C10_Witness ==
  /\ last.op = "process"
  /\ \E c1, c2 \in chains :
       /\ c1.phase = "aborted"
       /\ c1.node.meta \in sent
       /\ c2.phase = "spawned"
       /\ c2.node.meta.round = c1.node.meta.round + 2
       /\ last.enter = c2.node.meta.round

\* C11: a pull_payload error inside enter_new_round(r) does not stall the
\* round: the call still sets current_round to r, journals a round-r node and
\* broadcasts it.
C11_PullFailureProceeds ==
  (last.pulled /\ last.res = "pull_payload") =>
    /\ status = "running"
    /\ current_round = last.enter
    /\ \E p \in journal :
         /\ p.meta.round = last.enter
         /\ \E c \in chains : c.node = p

\* C12: when the DAG store rejects the insertion with DuplicateNode (its
\* parents being present), process returns CertifiedAck, and the DAG and
\* current_round are unchanged.
C12_DuplicateNodeIsSuccess ==
  [][\A n \in PeerNodes :
       (/\ last'.op = "process"
        /\ all_exists(dag, n.links)
        /\ DagAddResult(dag, n) = "DuplicateNode"
        /\ ~exists(dag, n.meta)
        /\ Process(n, "ok")) =>
         /\ last'.res = "Ack"
         /\ UNCHANGED <<dag, current_round>>]_vars

\* C13: once the first phase of the broadcast of the journal's node has
\* completed (the task is in its second phase or finished), the journal holds
\* no pending node until the next enter_new_round.
C13_PendingNodeCleared ==
  \A c \in chains :
    (c.node.meta \in rb_abort_handle /\ c.phase \in {"inner", "done"}) =>
      journal = {}

\* The number of DAG locks the call holds after the first k events of a trace.
RECURSIVE Held(_, _)
Held(trace, k) ==
  IF k = 0 THEN 0
  ELSE Held(trace, k - 1)
         + (IF trace[k] \in {ReadLock, WriteLock} THEN 1 ELSE 0)
         - (IF trace[k] \in {ReadUnlock, WriteUnlock} THEN 1 ELSE 0)

\* C14: in every call of new, process, add_node and enter_new_round the DAG
\* lock is not held at an .await, is not taken while the call holds it
\* already (so enter_new_round's read lock never meets add_node's write lock),
\* and is released when the call ends.
C14_NoLockAcrossAwait ==
  /\ \A k \in 1..Len(last.trace) :
       last.trace[k] \in {Await, ReadLock, WriteLock} =>
         Held(last.trace, k - 1) = 0
  /\ Held(last.trace, Len(last.trace)) = 0

C14_Witness ==
  /\ last.op = "process"
  /\ last.res = "Ack"
  /\ last.pulled
  /\ last.trace = <<ReadLock, ReadUnlock, Await, WriteLock, WriteUnlock, Await,
                    ReadLock, ReadUnlock, ReadLock, ReadUnlock, Await>>

\* C15: the order rule is told of a node only if the node is in the DAG, and
\* of no node twice; and every call that inserts a node into the DAG tells the
\* order rule of it (a call ended by the fatal storage failure apart).
C15_OrderRuleNotification ==
  /\ [](\A m \in BagToSet(order_rule) :
          exists(dag, m) /\ CopiesIn(m, order_rule) = 1)
  /\ [][\A n \in PeerNodes :
          (n \notin dag /\ dag' = dag \cup {n}
             /\ last'.res # "save_pending_node") =>
            CopiesIn(n.meta, order_rule') = 1]_vars

\* C16: a replica that starts from an empty DAG proposes round 1 and, the
\* peers' round-1 nodes being delivered, eventually runs with current_round = 2.
C16_NoConflictProgress ==
  (dag = {}) ~> (status = "running" /\ current_round = 2)

\* The nodes of d that the roots name or that a chain of at most k strong
\* links leads to from them.
RECURSIVE Ancestors(_, _, _)
Ancestors(d, roots, k) ==
  LET named == {n \in d : n.meta \in roots}
  IN IF k = 0 THEN named
     ELSE named \cup Ancestors(d, UNION {n.links : n \in named}, k - 1)

\* max(0, highest_committed_anchor_round - DAG_WINDOW)
LowestFilteredRound ==
  IF committed - DAG_WINDOW > 0 THEN committed - DAG_WINDOW ELSE 0

\* C18: without strong links the payload filter is PayloadFilter::Empty; and
\* the filter a call of enter_new_round(r) pulls the payload with holds the
\* payloads of exactly the nodes that strong-link edges reach from the strong
\* links of round r - 1 and whose round is at least
\* max(0, highest_committed_anchor_round - DAG_WINDOW).
C18_PayloadFilterClosure ==
  /\ [](payload_filter(dag, {}, committed) = PayloadFilterEmpty)
  /\ [][(last'.pulled /\ UNCHANGED committed) =>
          /\ last'.filter.kind = "Excluding"
          /\ last'.filter.payloads =
               {n.meta : n \in
                  {a \in Ancestors(dag', StrongLinks(dag', last'.enter - 1),
                                   MaxRound) :
                     a.meta.round >= LowestFilteredRound}}]_vars

C18_Witness ==
  /\ last.pulled
  /\ last.enter = 3
  /\ committed = 3
  /\ last.filter.payloads # {}
  /\ \A m \in last.filter.payloads : m.round = 2

\* C19: enter_new_round(r) saves the new node before it sets current_round
\* to r: in no state, the state at a save failure included, is current_round
\* a round r entered while the journal holds no pending node of round r.
C19_SaveBeforeRound ==
  current_round # 0 => \E p \in journal : p.meta.round = current_round

====
